---- MODULE Spec2Model ----
(***************************************************************************)
(* Telematrix: application service bridging a Matrix room with a Telegram  *)
(* group (src/telematrix/__init__.py).                                     *)
(*                                                                         *)
(* Strings are sequences of tokens: the punctuation the code splits on     *)
(* ("@", "#", "_", ":") is one token each, every other token stands for a  *)
(* run of characters without punctuation.  A key that is absent from a     *)
(* JSON object is the string Missing; Python's None and '' are <<>>.       *)
(***************************************************************************)
EXTENDS Integers, Sequences, FiniteSets, TLC

VARIABLES chatLinks, matrixUsers, tgUsers, messages, call, pending

vars == <<chatLinks, matrixUsers, tgUsers, messages, call, pending>>
tables == <<chatLinks, matrixUsers, tgUsers, messages>>

(***************************************************************************)
(* Bounds                                                                  *)
(***************************************************************************)
MaxMessages == 1
\* longest "events" array of a transaction
MaxEvents == 2
\* Message rows held when deliveries repeat
MaxRows == 2
\* handlers in flight at once
MaxTasks == 2

(***************************************************************************)
(* Configuration and string helpers                                        *)
(***************************************************************************)
Missing == <<"<missing>">>
NoAge == -1
StaleAge == 600000

MATRIX_HOST_BARE == <<"example.org">>
OtherHost == <<"other.org">>

RECURSIVE SplitAcc(_, _, _, _)
SplitAcc(s, sep, cur, acc) ==
    IF s = <<>> THEN Append(acc, cur)
    ELSE IF Head(s) = sep
         THEN SplitAcc(Tail(s), sep, <<>>, Append(acc, cur))
         ELSE SplitAcc(Tail(s), sep, Append(cur, Head(s)), acc)

\* str.split(sep)
Split(s, sep) == SplitAcc(s, sep, <<>>, <<>>)

\* s[1:]
DropFirst(s) == IF s = <<>> THEN <<>> ELSE Tail(s)

\* s[-1]
Last(s) == s[Len(s)]

StartsWith(s, p) == Len(s) >= Len(p) /\ SubSeq(s, 1, Len(p)) = p

EndsWith(s, p) == Len(s) >= Len(p) /\ SubSeq(s, Len(s) - Len(p) + 1, Len(s)) = p

\* Python's "x or y" on strings
OrElse(x, y) == IF x = <<>> THEN y ELSE x

\* a faulty variant: the sigil is left on the username
matrix_is_telegram_sigil(user_id) ==
    StartsWith(Split(user_id, ":")[1], <<"telegram", "_">>)

matrix_is_telegram(user_id) ==
    StartsWith(DropFirst(Split(user_id, ":")[1]), <<"telegram", "_">>)

get_username(user_id) == DropFirst(Split(user_id, ":")[1])

(***************************************************************************)
(* Link Store: each table is the sequence of its rows in insertion order;  *)
(* query(...).filter_by(...).first() is the first matching row.            *)
(***************************************************************************)
NoRow == 0

\* matches[i] tells whether row i passes the filter
FirstIndex(matches) ==
    IF \E i \in 1..Len(matches) : matches[i]
    THEN CHOOSE i \in 1..Len(matches) :
            matches[i] /\ \A j \in 1..(i - 1) : ~matches[j]
    ELSE NoRow

ChatLink(matrix_room, tg_room, active) ==
    [matrix_room |-> matrix_room, tg_room |-> tg_room, active |-> active]

MatrixUser(matrix_id, name) == [matrix_id |-> matrix_id, name |-> name]

TgUser(tg_id, name, profile_pic_id) ==
    [tg_id |-> tg_id, name |-> name, profile_pic_id |-> profile_pic_id]

Message(tg_group_id, tg_message_id, matrix_room_id, matrix_event_id, displayname) ==
    [tg_group_id |-> tg_group_id, tg_message_id |-> tg_message_id,
     matrix_room_id |-> matrix_room_id, matrix_event_id |-> matrix_event_id,
     displayname |-> displayname]

LinkByRoom(room_id) ==
    FirstIndex([i \in 1..Len(chatLinks) |-> chatLinks[i].matrix_room = room_id])

LinkByGroup(tg_room) ==
    FirstIndex([i \in 1..Len(chatLinks) |-> chatLinks[i].tg_room = tg_room])

(***************************************************************************)
(* Outbound calls.  Every handler run appends the network calls it makes,  *)
(* in the order it makes them, to the "out" field of its call record.      *)
(***************************************************************************)
Payload(body, formatted_body, format, msgtype, url) ==
    [body |-> body, formatted_body |-> formatted_body, format |-> format,
     msgtype |-> msgtype, url |-> url]

NoPayload == Payload(Missing, Missing, Missing, Missing, Missing)

OutCall(api, target, user, txn, data) ==
    [api |-> api, target |-> target, user |-> user, txn |-> txn, data |-> data]

\* group.send_text(msg, parse_mode=mode)
TgSendText(tg_room, msg, mode) ==
    OutCall("telegram.sendMessage", tg_room, Missing, Missing,
            Payload(msg, Missing, mode, Missing, Missing))

\* group.send_photo(img_file, caption=caption)
TgSendPhoto(tg_room, caption) ==
    OutCall("telegram.sendPhoto", tg_room, Missing, Missing,
            Payload(caption, Missing, Missing, Missing, Missing))

IsTelegramCall(c) == c.api \in {"telegram.sendMessage", "telegram.sendPhoto"}

(***************************************************************************)
(* HTML helpers                                                            *)
(***************************************************************************)
\* html.escape, one token at a time
EscapeToken(t) ==
    CASE t = "&"  -> "&amp;"
      [] t = "<"  -> "&lt;"
      [] t = ">"  -> "&gt;"
      [] t = "\"" -> "&quot;"
      [] t = "'"  -> "&#x27;"
      [] OTHER    -> t

html_escape(s) == [i \in 1..Len(s) |-> EscapeToken(s[i])]

VALID_TAGS == {"b", "strong", "i", "em", "a", "pre"}

\* Tag tokens of the rich bodies the model feeds in, with their tag names.
TagName(t) ==
    CASE t \in {"<b>", "</b>"}                   -> "b"
      [] t \in {"<i>", "</i>"}                   -> "i"
      [] t \in {"<span>", "</span>"}             -> "span"
      [] t \in {"<blockquote>", "</blockquote>"} -> "blockquote"
      [] OTHER                                   -> ""

IsTag(t) == TagName(t) # ""

\* Text nodes are written back with "&", "<" and ">" as entities.
RenderText(t) ==
    CASE t = "&" -> "&amp;"
      [] t = "<" -> "&lt;"
      [] t = ">" -> "&gt;"
      [] OTHER   -> t

RECURSIVE RStripQuote(_)
\* str.rstrip('\n>')
RStripQuote(s) ==
    IF s # <<>> /\ Last(s) \in {"\n", ">"}
    THEN RStripQuote(SubSeq(s, 1, Len(s) - 1))
    ELSE s

RECURSIVE QuoteLines(_)
\* str.replace('\n', '\n> ')
QuoteLines(s) ==
    IF s = <<>> THEN <<>>
    ELSE IF Head(s) = "\n"
         THEN <<"\n", ">", " ">> \o QuoteLines(Tail(s))
         ELSE <<Head(s)>> \o QuoteLines(Tail(s))

RECURSIVE SanitizeWalk(_, _, _)
\* The walk over the parsed tree: quoted is the text gathered inside the
\* blockquote being read (depth > 0), whose tags are dropped with it.
SanitizeWalk(s, depth, quoted) ==
    IF s = <<>>
    THEN IF depth > 0
         THEN [i \in 1..Len(RStripQuote(QuoteLines(<<"\n">> \o quoted))) |->
                  RenderText(RStripQuote(QuoteLines(<<"\n">> \o quoted))[i])]
         ELSE <<>>
    ELSE LET t == Head(s) IN
         IF t = "<blockquote>"
         THEN SanitizeWalk(Tail(s), depth + 1, quoted)
         ELSE IF t = "</blockquote>" /\ depth > 1
         THEN SanitizeWalk(Tail(s), depth - 1, quoted)
         ELSE IF t = "</blockquote>" /\ depth = 1
         THEN [i \in 1..Len(RStripQuote(QuoteLines(<<"\n">> \o quoted))) |->
                  RenderText(RStripQuote(QuoteLines(<<"\n">> \o quoted))[i])]
              \o SanitizeWalk(Tail(s), 0, <<>>)
         ELSE IF depth > 0
         THEN SanitizeWalk(Tail(s), depth,
                           IF IsTag(t) THEN quoted ELSE Append(quoted, t))
         ELSE IF IsTag(t) /\ TagName(t) \notin VALID_TAGS
         THEN SanitizeWalk(Tail(s), depth, quoted)
         ELSE <<(IF IsTag(t) THEN t ELSE RenderText(t))>>
              \o SanitizeWalk(Tail(s), depth, quoted)

sanitize_html(string) ==
    SanitizeWalk([i \in 1..Len(string) |->
                     IF string[i] \in {"<br>", "<br/>", "<br />"}
                     THEN "\n" ELSE string[i]],
                 0, <<>>)

RECURSIVE Format(_, _)
\* str.format(*args): each "{}" token takes the next argument
Format(form, args) ==
    IF form = <<>> THEN <<>>
    ELSE IF Head(form) = "{}"
         THEN Head(args) \o Format(Tail(form), Tail(args))
         ELSE <<Head(form)>> \o Format(Tail(form), args)

HtmlFormat == <<"org.matrix.custom.html">>

\* returns <<text, parse_mode>>
format_matrix_msg(form, username, content) ==
    IF content.format # Missing /\ content.format = HtmlFormat
    THEN <<Format(html_escape(form), <<username, sanitize_html(content.formatted_body)>>),
           <<"HTML">>>>
    ELSE <<Format(form, <<username, content.body>>), <<>>>>

(***************************************************************************)
(* Matrix events                                                           *)
(***************************************************************************)
Content(aliases, msgtype, body, format, formatted_body, url, mimetype, membership, displayname) ==
    [aliases |-> aliases, msgtype |-> msgtype, body |-> body, format |-> format,
     formatted_body |-> formatted_body, url |-> url, mimetype |-> mimetype,
     membership |-> membership, displayname |-> displayname]

\* unsigned.prev_content; has_prev is "'unsigned' in event and 'prev_content'
\* in event['unsigned']"
PrevContent(has_prev, membership, displayname) ==
    [has_prev |-> has_prev, membership |-> membership, displayname |-> displayname]

NoPrev == PrevContent(FALSE, Missing, Missing)

MatrixEventRec(type, age, room_id, event_id, state_key, user_id, content, prev) ==
    [type |-> type, age |-> age, room_id |-> room_id, event_id |-> event_id,
     state_key |-> state_key, user_id |-> user_id, content |-> content,
     prev |-> prev]

\* What a handler leaves behind: the tables, the calls made, whether an
\* exception left the handler, and whether one was caught on its way out of
\* an event handler.
Outcome(links, musers, tusers, msgs, out, raised) ==
    [links |-> links, musers |-> musers, tusers |-> tusers, msgs |-> msgs,
     out |-> out, raised |-> raised, caught |-> FALSE]

\* What the networks answer during the run of an event handler: a Telegram
\* send either returns the sent message or raises, and the download of an
\* image from the homeserver either returns or raises before any send.
TgOk(message_id) == [ok |-> TRUE, message_id |-> message_id, media |-> TRUE]
TgError == [ok |-> FALSE, message_id |-> 0, media |-> TRUE]
MediaError == [ok |-> FALSE, message_id |-> 0, media |-> FALSE]

RECURSIVE AliasRows(_, _)
\* the loop over event['content']['aliases']
AliasRows(aliases, room_id) ==
    IF aliases = <<>> THEN <<>>
    ELSE LET alias == Head(aliases) IN
         IF Split(alias, "_")[1] # <<"#", "telegram">>
            \/ Last(Split(alias, ":")) # MATRIX_HOST_BARE
         THEN AliasRows(Tail(aliases), room_id)
         ELSE <<ChatLink(room_id, Split(Split(alias, "_")[2], ":")[1], TRUE)>>
              \o AliasRows(Tail(aliases), room_id)

\* a faulty variant: the state key is not looked at
FromLinkedServerAny(event) == TRUE

\* "Discard events that are not from the linked server" keeps these
FromLinkedServer(event) == event.state_key = MATRIX_HOST_BARE

_matrix_on_aliases(event) ==
    IF ~FromLinkedServer(event)
    THEN Outcome(chatLinks, matrixUsers, tgUsers, messages, <<>>, FALSE)
    ELSE Outcome(SelectSeq(chatLinks, LAMBDA l : l.matrix_room # event.room_id)
                    \o AliasRows(event.content.aliases, event.room_id),
                 matrixUsers, tgUsers, messages, <<>>, FALSE)

KnownMimeTypes == {<<"image/jpeg">>, <<"image/gif">>, <<"image/png">>,
                   <<"image/tiff">>, <<"image/x-tiff">>, <<"image/bmp">>,
                   <<"image/x-windows-bmp">>}

mime_extensions(mimetype) ==
    CASE mimetype = <<"image/jpeg">>          -> <<"jpg">>
      [] mimetype = <<"image/gif">>           -> <<"gif">>
      [] mimetype = <<"image/png">>           -> <<"png">>
      [] mimetype = <<"image/tiff">>          -> <<"tif">>
      [] mimetype = <<"image/x-tiff">>        -> <<"tif">>
      [] mimetype = <<"image/bmp">>           -> <<"bmp">>
      [] mimetype = <<"image/x-windows-bmp">> -> <<"bmp">>

\* returns [out, sent, raised]: the calls made, whether send_photo was
\* reached and returned a response, and whether the function raised (a
\* KeyError on the MIME type, a failed download, a failed send).
_matrix_on_message_image(displayname, tg_room, content, tgResp) ==
    IF content.mimetype \notin KnownMimeTypes
    THEN [out |-> <<>>, sent |-> FALSE, raised |-> TRUE]
    ELSE IF ~tgResp.media
    THEN [out |-> <<OutCall("matrix.GET", <<"media/download">> \o content.url,
                            Missing, Missing, NoPayload)>>,
          sent |-> FALSE, raised |-> TRUE]
    ELSE LET body == IF EndsWith(content.body, mime_extensions(content.mimetype))
                     THEN content.body
                     ELSE content.body \o <<".">> \o mime_extensions(content.mimetype)
             caption == Format(<<"<", "{}", ">", " ", "{}", " ", "(", "{}", ")">>,
                               <<displayname, body, content.url>>)
         IN [out |-> <<OutCall("matrix.GET", <<"media/download">> \o content.url,
                               Missing, Missing, NoPayload),
                       TgSendPhoto(tg_room, caption)>>,
             sent |-> tgResp.ok, raised |-> ~tgResp.ok]

\* a faulty variant: no try around the image relay
ImageErrorUncaught(image) == image.raised

\* "except Exception as e" around _matrix_on_message_image: what it raises
\* does not leave _matrix_on_message
ImageErrorEscapes(image) == FALSE

\* a faulty variant: every type is formatted as a text
MessageFormText(msgtype) == <<"<", "{}", ">", " ", "{}">>

\* the format string passed to format_matrix_msg for each message type
MessageForm(msgtype) ==
    CASE msgtype = <<"m.text">>   -> <<"<", "{}", ">", " ", "{}">>
      [] msgtype = <<"m.notice">> -> <<"[", "{}", "]", " ", "{}">>
      [] msgtype = <<"m.emote">>  -> <<"*", " ", "{}", " ", "{}">>
      [] OTHER                    -> <<>>

_matrix_on_message(event, tg_room, profile, tgResp) ==
    LET user_id == event.user_id
        content == event.content
    IN
    IF matrix_is_telegram(user_id) \/ content.msgtype = Missing
    THEN Outcome(chatLinks, matrixUsers, tgUsers, messages, <<>>, FALSE)
    ELSE
    LET sender == FirstIndex([i \in 1..Len(matrixUsers) |-> matrixUsers[i].matrix_id = user_id])
        displayname ==
            IF sender = NoRow
            THEN IF profile = Missing THEN get_username(user_id) ELSE profile
            ELSE OrElse(matrixUsers[sender].name, get_username(user_id))
        musers == IF sender = NoRow
                  THEN Append(matrixUsers, MatrixUser(user_id, displayname))
                  ELSE matrixUsers
        lookup == IF sender = NoRow
                  THEN <<OutCall("matrix.GET", <<"profile">> \o user_id \o <<"displayname">>,
                                 Missing, Missing, NoPayload)>>
                  ELSE <<>>
        form == MessageForm(content.msgtype)
        formatted == format_matrix_msg(form, displayname, content)
        image == _matrix_on_message_image(displayname, tg_room, content, tgResp)
        isText == content.msgtype \in {<<"m.text">>, <<"m.notice">>, <<"m.emote">>}
        isImage == content.msgtype = <<"m.image">>
        out == IF isText
               THEN Append(lookup, TgSendText(tg_room, formatted[1], formatted[2]))
               ELSE IF isImage THEN lookup \o image.out
               ELSE lookup
        \* send_text raising leaves the handler; an image failure is caught
        raised == (isText /\ ~tgResp.ok) \/ (isImage /\ ImageErrorEscapes(image))
        response == (isText /\ tgResp.ok) \/ (isImage /\ image.sent)
    IN Outcome(chatLinks, musers, tgUsers,
               IF response
               THEN Append(messages, Message(tg_room, tgResp.message_id, event.room_id,
                                             event.event_id, displayname))
               ELSE messages,
               out, raised)

_matrix_on_member(event, tg_room, tgResp) ==
    IF matrix_is_telegram(event.state_key)
    THEN Outcome(chatLinks, matrixUsers, tgUsers, messages, <<>>, FALSE)
    ELSE
    LET user_id == event.state_key
        content == event.content
        sender == FirstIndex([i \in 1..Len(matrixUsers) |-> matrixUsers[i].matrix_id = user_id])
        displayname == IF sender # NoRow THEN matrixUsers[sender].name
                       ELSE get_username(user_id)
    IN
    IF content.membership = <<"join">>
    THEN LET newname == IF content.displayname = Missing THEN get_username(user_id)
                        ELSE OrElse(content.displayname, get_username(user_id))
             musers == IF sender = NoRow
                       THEN Append(matrixUsers, MatrixUser(user_id, newname))
                       ELSE [matrixUsers EXCEPT ![sender].name = newname]
             prev == event.prev
             oldname == IF prev.has_prev /\ prev.membership = <<"join">>
                           /\ prev.displayname # Missing /\ prev.displayname # <<>>
                        THEN prev.displayname
                        ELSE displayname
             msg == IF prev.has_prev
                    THEN IF prev.membership = <<"join">>
                         THEN <<">", " ">> \o oldname
                              \o <<" changed their display name to ">> \o newname
                         ELSE <<>>
                    ELSE <<">", " ">> \o newname \o <<" has joined the room">>
         IN Outcome(chatLinks, musers, tgUsers, messages,
                    IF msg # <<>> THEN <<TgSendText(tg_room, msg, <<>>)>> ELSE <<>>,
                    msg # <<>> /\ ~tgResp.ok)
    ELSE IF content.membership = <<"leave">>
    THEN Outcome(chatLinks, matrixUsers, tgUsers, messages,
                 <<TgSendText(tg_room, <<"<", " ">> \o displayname
                                       \o <<" has left the room">>, <<>>)>>,
                 ~tgResp.ok)
    ELSE IF content.membership = <<"ban">>
    THEN Outcome(chatLinks, matrixUsers, tgUsers, messages,
                 <<TgSendText(tg_room, <<"<", "!", " ">> \o displayname
                                       \o <<" was banned from the room">>, <<>>)>>,
                 ~tgResp.ok)
    ELSE Outcome(chatLinks, matrixUsers, tgUsers, messages, <<>>, FALSE)

\* a faulty variant: the comparison turned round
IsStaleInverted(event) == event.age # NoAge /\ event.age < StaleAge

\* 'age' in event and event['age'] > 600000
IsStale(event) == event.age # NoAge /\ event.age > StaleAge

EVENT_HANDLERS == {<<"m.room.aliases">>, <<"m.room.message">>, <<"m.room.member">>}

\* The handler an event is dispatched to, run with the group of the link.
Dispatch(event, tg_room, profile, tgResp) ==
    CASE event.type = <<"m.room.aliases">> -> _matrix_on_aliases(event)
      [] event.type = <<"m.room.message">> ->
            _matrix_on_message(event, tg_room, profile, tgResp)
      [] event.type = <<"m.room.member">>  -> _matrix_on_member(event, tg_room, tgResp)

\* One run of _matrix_event: "raised" is TRUE when an exception leaves it.
\* With link None, link.tg_room raises inside the try before the handler is
\* called, and the except clause then reads the unbound local "group".
_matrix_event(event, profile, tgResp) ==
    LET unchanged == Outcome(chatLinks, matrixUsers, tgUsers, messages, <<>>, FALSE)
        link == LinkByRoom(event.room_id)
    IN
    IF IsStale(event) THEN unchanged
    ELSE IF link = NoRow /\ event.type # <<"m.room.aliases">> THEN unchanged
    ELSE IF event.type \notin EVENT_HANDLERS THEN unchanged
    ELSE IF link = NoRow THEN [unchanged EXCEPT !.raised = TRUE]
    ELSE [Dispatch(event, chatLinks[link].tg_room, profile, tgResp)
             EXCEPT !.raised = FALSE,
                    !.caught = Dispatch(event, chatLinks[link].tg_room, profile,
                                        tgResp).raised]

(***************************************************************************)
(* The HTTP endpoints the homeserver calls                                 *)
(***************************************************************************)
HS_TOKEN == <<"hs-token">>

\* the JSON object of a response: {} or {'errcode': ...}
EmptyObject == [errcode |-> Missing]
ErrorObject(errcode) == [errcode |-> errcode]

create_response(code, obj) == [code |-> code, obj |-> obj]

\* the run answers no HTTP request
NoResponse == create_response(0, EmptyObject)

\* what the web server answers when an exception leaves a handler
ServerError == create_response(500, EmptyObject)

\* a faulty variant: the event is awaited, and what it raises leaves the loop
EventAwaited(event, o) ==
    IF o.raised THEN o
    ELSE LET r == _matrix_event(event, Missing, TgOk(1))
         IN [r EXCEPT !.out = o.out \o r.out]

\* "_matrix_event(event)" without await: the call builds a coroutine object
\* that nothing awaits or schedules, so no statement of _matrix_event runs
CoroutineCreated(event, o) == o

RECURSIVE TransactionLoop(_, _)
\* for event in body['events']
TransactionLoop(events, o) ==
    IF events = <<>> \/ o.raised THEN o
    ELSE TransactionLoop(Tail(events), CoroutineCreated(Head(events), o))

\* a faulty variant: not found when no event is of a linked room
TransactionResponseNotFound(events) ==
    IF \A i \in 1..Len(events) : LinkByRoom(events[i].room_id) = NoRow
    THEN create_response(404, ErrorObject(<<"NL.SIJMENSCHOON.TELEMATRIX_NOT_FOUND">>))
    ELSE create_response(200, EmptyObject)

\* return create_response(200, {})
TransactionResponse(events) == create_response(200, EmptyObject)

\* returns [outcome, response]; body['events'] of a body without the key
\* raises KeyError
matrix_transaction(body) ==
    LET unchanged == Outcome(chatLinks, matrixUsers, tgUsers, messages, <<>>, FALSE)
        o == TransactionLoop(body.events, unchanged)
    IN IF ~body.has_events
       THEN [outcome |-> [unchanged EXCEPT !.raised = TRUE], response |-> ServerError]
       ELSE [outcome |-> o,
             response |-> IF o.raised THEN ServerError
                          ELSE TransactionResponse(body.events)]

RECURSIVE JoinWith(_, _)
\* sep.join(parts)
JoinWith(parts, sep) ==
    IF parts = <<>> THEN <<>>
    ELSE IF Len(parts) = 1 THEN parts[1]
    ELSE parts[1] \o <<sep>> \o JoinWith(Tail(parts), sep)

\* returns [outcome, response]; access_token is Missing when the query has no
\* such parameter, and then args['access_token'] raises KeyError in the print
\* that precedes the try
matrix_room(room_alias, access_token) ==
    LET unchanged == Outcome(chatLinks, matrixUsers, tgUsers, messages, <<>>, FALSE)
        localpart == Split(room_alias, ":")[1]
        chat == JoinWith(Tail(Split(localpart, "_")), "_")
        link == LinkByGroup(chat)
    IN IF access_token = Missing
       THEN [outcome |-> [unchanged EXCEPT !.raised = TRUE], response |-> ServerError]
       ELSE IF access_token # HS_TOKEN
       THEN [outcome |-> unchanged,
             response |-> create_response(403, ErrorObject(<<"M_FORBIDDEN">>))]
       ELSE IF link # NoRow
       THEN [outcome |-> [unchanged EXCEPT !.out =
                             <<OutCall("matrix.POST", <<"createRoom">>, Missing, Missing,
                                       Payload(DropFirst(localpart), Missing, Missing,
                                               Missing, Missing))>>],
             response |-> create_response(200, EmptyObject)]
       ELSE [outcome |-> unchanged,
             response |-> create_response(404,
                             ErrorObject(<<"NL.SIJMENSCHOON.TELEMATRIX_NOT_FOUND">>))]

(***************************************************************************)
(* Telegram updates and the calls to the Matrix homeserver                 *)
(***************************************************************************)
TgPerson(id, first_name, last_name) ==
    [id |-> id, first_name |-> first_name, last_name |-> last_name]

NoPerson == TgPerson(Missing, Missing, Missing)

\* reply_to_message: present is "'reply_to_message' in chat.message"
ReplyTo(present, message_id, from, text, has_photo, has_sticker) ==
    [present |-> present, message_id |-> message_id, from |-> from, text |-> text,
     has_photo |-> has_photo, has_sticker |-> has_sticker]

NoReply == ReplyTo(FALSE, 0, NoPerson, Missing, FALSE, FALSE)

Update(kind, chat_id, message_id, sender, text, forward_from, reply_to, caption, file_id) ==
    [kind |-> kind, chat_id |-> chat_id, message_id |-> message_id,
     sender |-> sender, text |-> text, forward_from |-> forward_from,
     reply_to |-> reply_to, caption |-> caption, file_id |-> file_id]

\* What the two networks answer during one handler run: the sender's profile
\* photos (<<>> for an empty photo list, else the file id of the first one),
\* whether a media upload returns a content_uri, and the answers to the first
\* send and to its retry.
Env(photos, uploadOk, send1, send2) ==
    [photos |-> photos, uploadOk |-> uploadOk, send1 |-> send1, send2 |-> send2]

MxSent(event_id) == [errcode |-> Missing, event_id |-> event_id]
MxRejected(errcode) == [errcode |-> errcode, event_id |-> Missing]

USER_ID_FORMAT == <<"@", "telegram", "_", "{}", ":", "example.org">>

\* first_name [+ ' ' + last_name] + ' (Telegram)'
TelegramName(person) ==
    person.first_name
       \o (IF person.last_name # Missing THEN <<" ">> \o person.last_name ELSE <<>>)
       \o <<" (Telegram)">>

MatrixPut(path, user_id, body) ==
    OutCall("matrix.PUT", path, user_id, Missing,
            Payload(body, Missing, Missing, Missing, Missing))

MatrixPost(path, user_id, body) ==
    OutCall("matrix.POST", path, user_id, Missing,
            Payload(body, Missing, Missing, Missing, Missing))

TgApi(method, arg) == OutCall(method, arg, Missing, Missing, NoPayload)

send_matrix_message(room_id, user_id, txn_id, data) ==
    OutCall("matrix.send", room_id, user_id, txn_id, data)

IsSend(c) == c.api = "matrix.send"

\* returns [out, uri]; uri is <<>> when the upload answer has no content_uri
upload_tgfile_to_matrix(file_id, user_id, uploadOk) ==
    [out |-> <<TgApi("telegram.getFile", file_id),
               TgApi("telegram.downloadFile", file_id),
               MatrixPost(<<"media/upload">>, user_id, file_id)>>,
     uri |-> IF uploadOk THEN <<"mxc://example.org/">> \o file_id ELSE <<>>]

\* returns the calls made; the IndexError of an empty photo list is caught
register_join_matrix(sender, room_id, user_id, env) ==
    LET name == TelegramName(sender)
        user == DropFirst(Split(user_id, ":")[1])
        upload == upload_tgfile_to_matrix(env.photos, user_id, env.uploadOk)
    IN <<OutCall("matrix.POST", <<"register">>, Missing, Missing,
                 Payload(user, Missing, Missing, Missing, Missing)),
         TgApi("telegram.getUserProfilePhotos", sender.id)>>
       \o (IF env.photos = <<>> THEN <<>>
           ELSE upload.out
                \o (IF upload.uri # <<>>
                    THEN <<MatrixPut(<<"profile">> \o user_id \o <<"avatar_url">>,
                                     user_id, upload.uri)>>
                    ELSE <<>>))
       \o <<MatrixPut(<<"profile">> \o user_id \o <<"displayname">>, user_id, name),
            MatrixPost(<<"join">> \o room_id, user_id, <<>>)>>

IsRegister(c) == c.api = "matrix.POST" /\ c.target = <<"register">>
IsJoin(c) == c.api = "matrix.POST" /\ c.target # <<>> /\ Head(c.target) = "join"

\* profile_photos['result']['photos'][0][-1]['file_id'] under "except
\* KeyError": indexing the empty list raises IndexError, which is not caught
FirstPhoto(photos) == [raised |-> photos = <<>>, file_id |-> photos]

\* a faulty variant: the cached photo id is not compared
PhotoChangedAlways(db_pic, pp_file_id) == TRUE

\* db_user.profile_pic_id != pp_file_id
PhotoChanged(db_pic, pp_file_id) == db_pic # pp_file_id

\* returns [tusers, out, raised]
update_matrix_displayname_avatar(tg_user, env) ==
    LET name == TelegramName(tg_user)
        user_id == Format(USER_ID_FORMAT, <<tg_user.id>>)
        db_user == FirstIndex([i \in 1..Len(tgUsers) |-> tgUsers[i].tg_id = tg_user.id])
        query == <<TgApi("telegram.getUserProfilePhotos", tg_user.id)>>
        photo == FirstPhoto(env.photos)
        pp_file_id == photo.file_id
        upload == upload_tgfile_to_matrix(pp_file_id, user_id, env.uploadOk)
        putName == <<MatrixPut(<<"profile">> \o user_id \o <<"displayname">>,
                               user_id, name)>>
        putAvatar == IF pp_file_id # <<>>
                     THEN upload.out
                          \o <<MatrixPut(<<"profile">> \o user_id \o <<"avatar_url">>,
                                         user_id, upload.uri)>>
                     ELSE <<MatrixPut(<<"profile">> \o user_id \o <<"avatar_url">>,
                                      user_id, <<>>)>>
    IN
    IF photo.raised THEN [tusers |-> tgUsers, out |-> query, raised |-> TRUE]
    ELSE IF db_user # NoRow
    THEN [tusers |-> [tgUsers EXCEPT ![db_user].name = name,
                                     ![db_user].profile_pic_id = pp_file_id],
          out |-> query
                  \o (IF tgUsers[db_user].name # name THEN putName ELSE <<>>)
                  \o (IF PhotoChanged(tgUsers[db_user].profile_pic_id, pp_file_id)
                      THEN putAvatar ELSE <<>>),
          raised |-> FALSE]
    ELSE [tusers |-> Append(tgUsers, TgUser(tg_user.id, name, pp_file_id)),
          out |-> query \o putName \o putAvatar,
          raised |-> FALSE]

RECURSIVE Replace(_, _, _)
\* str.replace(old, new) for a one-token old
Replace(s, old, new) ==
    IF s = <<>> THEN <<>>
    ELSE (IF Head(s) = old THEN new ELSE <<Head(s)>>) \o Replace(Tail(s), old, new)

\* '\n'.join(['>{}'.format(x) for x in text.split('\n')])
QuoteEachLine(text) == <<">">> \o Replace(text, "\n", <<"\n", ">">>)

\* html.escape(text).replace('\n', '<br />')
HtmlLines(text) == Replace(html_escape(text), "\n", <<"<br />">>)

TextPayload(body) == Payload(body, Missing, Missing, <<"m.text">>, Missing)

HtmlPayload(body, formatted_body) ==
    Payload(body, formatted_body, HtmlFormat, <<"m.text">>, Missing)

\* the forward_from branch: the content sent
ForwardPayload(update) ==
    LET message == update.text
        msg_from == TelegramName(update.forward_from)
    IN HtmlPayload(<<"Forwarded from ">> \o msg_from \o <<":", "\n">>
                      \o QuoteEachLine(message),
                   <<"<i>Forwarded from ">> \o html_escape(msg_from) \o <<":</i>", "\n">>
                      \o <<"<blockquote>">> \o HtmlLines(message) \o <<"</blockquote>">>)

\* the reply_to_message branch: the content sent
ReplyPayload(update, room_id) ==
    LET message == update.text
        re_msg == update.reply_to
        msg_from == TelegramName(re_msg.from)
        reply_mx_id == FirstIndex([i \in 1..Len(messages) |->
                          /\ messages[i].tg_group_id = update.chat_id
                          /\ messages[i].tg_message_id = re_msg.message_id])
        html_message == HtmlLines(message)
        quoted_msg == IF re_msg.text # Missing THEN QuoteEachLine(re_msg.text) ELSE <<>>
        quoted_html == IF re_msg.text # Missing
                       THEN <<"<blockquote>">> \o HtmlLines(re_msg.text)
                               \o <<"</blockquote>">>
                       ELSE <<>>
    IN
    IF reply_mx_id # NoRow
    THEN HtmlPayload(<<"Reply to ">> \o messages[reply_mx_id].displayname
                        \o <<":", "\n">> \o quoted_msg \o <<"\n", "\n">> \o message,
                     <<"<i><a href=\"https://matrix.to/#/">>
                        \o html_escape(room_id)
                        \o <<"/">>
                        \o html_escape(messages[reply_mx_id].matrix_event_id)
                        \o <<"\">Reply to ">>
                        \o html_escape(messages[reply_mx_id].displayname)
                        \o <<"</a>:</i><br />">> \o quoted_html
                        \o <<"<p>">> \o html_message \o <<"</p>">>)
    ELSE HtmlPayload(<<"Reply to ">> \o msg_from \o <<":", "\n">> \o quoted_msg
                        \o <<"\n", "\n">> \o message,
                     <<"<i>Reply to ">> \o html_escape(msg_from) \o <<":</i><br />">>
                        \o quoted_html \o <<"<p>">> \o html_message \o <<"</p>">>)

IsForbidden(j) == j.errcode # Missing /\ j.errcode = <<"M_FORBIDDEN">>

\* a faulty variant: the answer is not looked at
HasEventIdAlways(j) == TRUE

\* 'event_id' in j
HasEventId(j) == j.event_id # Missing

\* txn_id + 'join'
RetryTxn(txn_id) == txn_id \o <<"join">>

\* a faulty variant: the retry is sent before the ghost is registered and joined
RetryBeforeJoin(join, retry) == <<retry>> \o join

\* register_join_matrix, then the second send
JoinThenRetry(join, retry) == join \o <<retry>>

\* a faulty variant: a reply is relayed whatever its target holds
NoReplyContentIgnored(re_msg) == FALSE

\* "if not 'text' in re_msg and not 'photo' in re_msg and not 'sticker' in re_msg"
NoReplyContent(re_msg) ==
    re_msg.text = Missing /\ ~re_msg.has_photo /\ ~re_msg.has_sticker

\* a faulty variant: the link is not tested, and its room is read from None
UnknownChatRaises == Outcome(chatLinks, matrixUsers, tgUsers, messages, <<>>, TRUE)

\* "if not link: print('Unknown telegram chat ...'); return"
UnknownChatDropped == Outcome(chatLinks, matrixUsers, tgUsers, messages, <<>>, FALSE)

aiotg_message(update, env) ==
    LET link == LinkByGroup(update.chat_id)
        sync == update_matrix_displayname_avatar(update.sender, env)
        room_id == chatLinks[link].matrix_room
        user_id == Format(USER_ID_FORMAT, <<update.sender.id>>)
        txn_id == <<ToString(update.message_id), "%3A">> \o update.chat_id
        message == update.text
        re_msg == update.reply_to
        dropped == /\ update.forward_from = NoPerson
                   /\ re_msg.present
                   /\ NoReplyContent(re_msg)
        data == IF update.forward_from # NoPerson THEN ForwardPayload(update)
                ELSE IF re_msg.present THEN ReplyPayload(update, room_id)
                ELSE TextPayload(message)
        first == send_matrix_message(room_id, user_id, txn_id, data)
        retry == send_matrix_message(room_id, user_id, RetryTxn(txn_id),
                                     TextPayload(message))
        j == env.send1
    IN
    IF link = NoRow
    THEN UnknownChatDropped
    ELSE IF sync.raised
    THEN Outcome(chatLinks, matrixUsers, tgUsers, messages, sync.out, TRUE)
    ELSE IF dropped
    THEN Outcome(chatLinks, matrixUsers, sync.tusers, messages, sync.out, FALSE)
    ELSE IF IsForbidden(j)
    THEN Outcome(chatLinks, matrixUsers, sync.tusers, messages,
                 sync.out \o <<first>>
                    \o JoinThenRetry(register_join_matrix(update.sender, room_id,
                                                          user_id, env), retry),
                 FALSE)
    ELSE IF HasEventId(j)
    THEN Outcome(chatLinks, matrixUsers, sync.tusers,
                 Append(messages, Message(update.chat_id, update.message_id, room_id,
                                          j.event_id, TelegramName(update.sender))),
                 sync.out \o <<first>>, FALSE)
    ELSE Outcome(chatLinks, matrixUsers, sync.tusers, messages,
                 sync.out \o <<first>>, FALSE)

\* aiotg_photo and aiotg_sticker differ in the file name, the MIME type and
\* the conversion of the upload, none of which changes the calls made.
ImageUpdate(update, env, body) ==
    LET link == LinkByGroup(update.chat_id)
        sync == update_matrix_displayname_avatar(update.sender, env)
        room_id == chatLinks[link].matrix_room
        user_id == Format(USER_ID_FORMAT, <<update.sender.id>>)
        txn_id == <<ToString(update.message_id)>> \o update.chat_id
        upload == upload_tgfile_to_matrix(update.file_id, user_id, env.uploadOk)
        data == Payload(body, Missing, Missing, <<"m.image">>, upload.uri)
        first == send_matrix_message(room_id, user_id, txn_id, data)
        retry == send_matrix_message(room_id, user_id, RetryTxn(txn_id), data)
        caption == send_matrix_message(room_id, user_id, txn_id \o <<"caption">>,
                                       TextPayload(update.caption))
        j == env.send1
        out == sync.out \o upload.out \o <<first>>
                  \o (IF IsForbidden(j)
                      THEN JoinThenRetry(register_join_matrix(update.sender, room_id,
                                                              user_id, env), retry)
                      ELSE <<>>)
                  \o (IF update.caption # Missing THEN <<caption>> ELSE <<>>)
    IN
    IF link = NoRow
    THEN UnknownChatDropped
    ELSE IF sync.raised
    THEN Outcome(chatLinks, matrixUsers, tgUsers, messages, sync.out, TRUE)
    ELSE IF upload.uri = <<>>
    THEN Outcome(chatLinks, matrixUsers, sync.tusers, messages,
                 sync.out \o upload.out, FALSE)
    ELSE Outcome(chatLinks, matrixUsers, sync.tusers,
                 IF HasEventId(j)
                 THEN Append(messages, Message(update.chat_id, update.message_id,
                                               room_id, j.event_id,
                                               TelegramName(update.sender)))
                 ELSE messages,
                 out, FALSE)

aiotg_photo(update, env) == ImageUpdate(update, env, <<"Image_", "<ms>", ".jpg">>)

aiotg_sticker(update, env) == ImageUpdate(update, env, <<"Sticker_", "<ms>", ".png">>)

(***************************************************************************)
(* Inputs                                                                  *)
(***************************************************************************)
R1 == <<"!r1:example.org">>
R2 == <<"!r2:example.org">>
Rooms == {R1, R2}

Alice == <<"@", "alice", ":", "example.org">>
Ghost == <<"@", "telegram", "_", "7", ":", "example.org">>

Alias(group, host) == <<"#", "telegram", "_">> \o group \o <<":">> \o host

A1 == Alias(<<"1001">>, MATRIX_HOST_BARE)
A2 == Alias(<<"1002">>, MATRIX_HOST_BARE)

AliasLists == {<<>>, <<A1>>, <<A2>>, <<A1, A2>>,
               <<Alias(<<"1001">>, OtherHost)>>,
               <<<<"#", "general", ":">> \o MATRIX_HOST_BARE, A2>>}

NoContent == Content(<<>>, Missing, Missing, Missing, Missing, Missing, Missing,
                     Missing, Missing)

EventId == <<"$m1">>

AliasEvents ==
    {MatrixEventRec(<<"m.room.aliases">>, NoAge, r, EventId, sk, Alice,
                    [NoContent EXCEPT !.aliases = al], NoPrev) :
        r \in Rooms, sk \in {MATRIX_HOST_BARE, OtherHost}, al \in AliasLists}

RichBody == <<"<span>", "waves", "</span>", "<br>", "<b>", "&", "</b>">>

MessageContents ==
    {[NoContent EXCEPT !.msgtype = mt, !.body = <<"waves">>] :
        mt \in {<<"m.text">>, <<"m.notice">>, <<"m.emote">>, <<"m.file">>}}
    \cup {[NoContent EXCEPT !.msgtype = <<"m.text">>, !.body = <<"waves">>,
                            !.format = HtmlFormat, !.formatted_body = RichBody],
          [NoContent EXCEPT !.body = <<"waves">>]}
    \cup {[NoContent EXCEPT !.msgtype = <<"m.image">>, !.body = <<"cat">>,
                            !.url = <<"mxc://example.org/abc">>, !.mimetype = mt] :
             mt \in {<<"image/png">>, <<"image/webp">>}}

TextContent == [NoContent EXCEPT !.msgtype = <<"m.text">>, !.body = <<"waves">>]

MessageEvents ==
    {MatrixEventRec(<<"m.room.message">>, NoAge, R1, EventId, Missing, Alice, c, NoPrev) :
        c \in MessageContents}
    \cup {MatrixEventRec(<<"m.room.message">>, NoAge, R1, EventId, Missing, Ghost,
                         TextContent, NoPrev)}

Prevs == {NoPrev, PrevContent(TRUE, <<"join">>, <<"Al">>),
          PrevContent(TRUE, <<"join">>, Missing),
          PrevContent(TRUE, <<"invite">>, Missing)}

MemberEvents ==
    {MatrixEventRec(<<"m.room.member">>, NoAge, R1, EventId, Alice, Alice,
                    [NoContent EXCEPT !.membership = <<"join">>, !.displayname = dn],
                    prev) :
        dn \in {Missing, <<"Alice">>}, prev \in Prevs}
    \cup {MatrixEventRec(<<"m.room.member">>, NoAge, R1, EventId, Alice, Alice,
                         [NoContent EXCEPT !.membership = m], NoPrev) :
             m \in {<<"leave">>, <<"ban">>, <<"invite">>}}
    \cup {MatrixEventRec(<<"m.room.member">>, NoAge, R1, EventId, Ghost, Ghost,
                         [NoContent EXCEPT !.membership = <<"join">>], NoPrev)}

OtherEvents ==
    {MatrixEventRec(<<"m.room.topic">>, NoAge, R1, EventId, <<>>, Alice, NoContent, NoPrev)}

\* One event of each type for a linked and an unlinked room, past the
\* staleness threshold, and state events delivered exactly at it.
SampleStateEvents ==
    {MatrixEventRec(<<"m.room.aliases">>, NoAge, R1, EventId, MATRIX_HOST_BARE, Alice,
                    [NoContent EXCEPT !.aliases = <<A2>>], NoPrev),
     MatrixEventRec(<<"m.room.member">>, NoAge, R1, EventId, Alice, Alice,
                    [NoContent EXCEPT !.membership = <<"join">>,
                                      !.displayname = <<"Alice">>], NoPrev)}
       \cup OtherEvents

SampleMessageEvents ==
    {MatrixEventRec(<<"m.room.message">>, NoAge, r, EventId, Missing, Alice,
                    TextContent, NoPrev) : r \in Rooms}

AgedEvents ==
    {[e EXCEPT !.age = StaleAge + 1] : e \in SampleStateEvents \cup SampleMessageEvents}
       \cup {[e EXCEPT !.age = StaleAge] : e \in SampleStateEvents}

TgResponses == {TgOk(1), TgError}

\* the download only happens for an image
ResponsesFor(event, responses) ==
    IF event.content.msgtype = <<"m.image">> THEN responses \cup {MediaError}
    ELSE responses

Profiles == {Missing, <<"Alice">>}

LinkInits == {<<>>,
              <<ChatLink(R1, <<"1001">>, TRUE)>>,
              <<ChatLink(R1, <<"1001">>, TRUE), ChatLink(R2, <<"1002">>, TRUE)>>}

(***************************************************************************)
(* Specification                                                           *)
(***************************************************************************)
\* the run made no Telegram send
NoTgAnswer == [ok |-> FALSE, message_id |-> 0, media |-> TRUE]

\* The last handler run: its input, the calls it made in order, whether an
\* exception left it, what Telegram answered to its send, and the HTTP
\* response it returned.
HandlerRun(op, arg, out, raised, tg, response) ==
    [op |-> op, arg |-> arg, out |-> out, raised |-> raised, tg |-> tg,
     response |-> response, caught |-> FALSE]

CallRec(op, arg, out, raised) ==
    HandlerRun(op, arg, out, raised, NoTgAnswer, NoResponse)

\* A handler suspended at an await: where it stands (pc), what it was handed
\* (arg, group) and what it holds in its locals (row, name, pic).
Task(pc, arg, group, row, name, pic) ==
    [pc |-> pc, arg |-> arg, group |-> group, row |-> row, name |-> name, pic |-> pic]

Idle == Task("idle", <<>>, <<>>, NoRow, <<>>, <<>>)

Tasks == 1..MaxTasks

Init ==
    /\ pending = [t \in Tasks |-> Idle]
    /\ chatLinks \in LinkInits
    /\ matrixUsers = <<>>
    /\ tgUsers = <<>>
    /\ messages = <<>>
    /\ call = CallRec("init", <<>>, <<>>, FALSE)

WithinBounds(o) == Len(o.msgs) <= MaxMessages

\* the tables after a run
Store(o) ==
    /\ chatLinks' = o.links
    /\ matrixUsers' = o.musers
    /\ tgUsers' = o.tusers
    /\ messages' = o.msgs
    /\ pending' = pending

Apply(op, arg, o) ==
    /\ WithinBounds(o)
    /\ Store(o)
    /\ call' = CallRec(op, arg, o.out, o.raised)

\* the answer of Telegram to the send of a run, if it made one
TgAnswer(o, tgResp) ==
    IF \E i \in 1..Len(o.out) : IsTelegramCall(o.out[i]) THEN tgResp ELSE NoTgAnswer

MatrixEventRun(event, profile, tgResp) ==
    LET o == _matrix_event(event, profile, tgResp)
    IN /\ Store(o)
       /\ call' = [HandlerRun("_matrix_event", event, o.out, o.raised,
                              TgAnswer(o, tgResp), NoResponse)
                       EXCEPT !.caught = o.caught]

MatrixEvent(events) ==
    \E event \in events, profile \in Profiles :
      \E tgResp \in ResponsesFor(event, TgResponses) :
        /\ WithinBounds(_matrix_event(event, profile, tgResp))
        /\ MatrixEventRun(event, profile, tgResp)

AliasEvent == MatrixEvent(AliasEvents)
MessageEvent == MatrixEvent(MessageEvents)
MemberEvent == MatrixEvent(MemberEvents)
OtherEvent == MatrixEvent(OtherEvents)
AgedEvent == MatrixEvent(AgedEvents)

\* Room links and dispatch: alias, membership, unhandled and aged events.
Next == AliasEvent \/ MemberEvent \/ OtherEvent \/ AgedEvent

Spec == Init /\ [][Next]_vars

\* Message relay from Matrix to Telegram over the links the store starts with.
NextMsg == MessageEvent \/ MemberEvent

SpecMsg == Init /\ [][NextMsg]_vars

\* Telegram updates
Bob == TgPerson(<<"7">>, <<"Bob">>, Missing)
BobRay == TgPerson(<<"7">>, <<"Bob">>, <<"Ray">>)
Eve == TgPerson(<<"9">>, <<"Eve">>, Missing)

G1 == <<"1001">>
G2 == <<"1002">>

Hello == <<"hello">>
TwoLines == <<"a", "<", "b", "\n", "c">>

TextUpdate(chat, id, sender, text, fwd, reply) ==
    Update("text", chat, id, sender, text, fwd, reply, Missing, Missing)

PlainUpdates ==
    {TextUpdate(G1, 1, sender, Hello, NoPerson, NoReply) : sender \in {Bob, BobRay}}
       \cup {TextUpdate(G2, 1, Bob, Hello, NoPerson, NoReply)}

ReplyUpdates ==
    {TextUpdate(G1, 2, Bob, Hello, NoPerson, re) :
        re \in {ReplyTo(TRUE, 1, Eve, TwoLines, FALSE, FALSE),
                ReplyTo(TRUE, 1, Eve, Missing, TRUE, FALSE),
                ReplyTo(TRUE, 1, Eve, Missing, FALSE, FALSE)}}

ForwardUpdates ==
    {TextUpdate(G1, 2, Bob, TwoLines, Eve, re) :
        re \in {NoReply, ReplyTo(TRUE, 1, Eve, Hello, FALSE, FALSE)}}

TextUpdates == PlainUpdates \cup ReplyUpdates \cup ForwardUpdates

PhotoUpdates ==
    {Update("photo", G1, 1, Bob, Missing, NoPerson, NoReply, caption, <<"file1">>) :
        caption \in {Missing, Hello}}
       \cup {Update("photo", G2, 1, Bob, Missing, NoPerson, NoReply, Missing, <<"file1">>)}

StickerUpdates ==
    {Update("sticker", G1, 1, Bob, Missing, NoPerson, NoReply, caption, <<"file2">>) :
        caption \in {Missing, Hello}}
       \cup {Update("sticker", G2, 1, Bob, Missing, NoPerson, NoReply, Missing, <<"file2">>)}

E1 == <<"$e1">>
E2 == <<"$e2">>

\* The retry is only sent after a rejection with M_FORBIDDEN.
Envs ==
    {Env(photos, TRUE, send1, MxRejected(<<"M_UNKNOWN">>)) :
        photos \in {<<>>, <<"pp1">>, <<"pp2">>},
        send1 \in {MxSent(E1), MxRejected(<<"M_UNKNOWN">>)}}
    \cup {Env(<<"pp1">>, FALSE, MxSent(E1), MxRejected(<<"M_UNKNOWN">>))}
    \cup {Env(<<"pp1">>, TRUE, MxRejected(<<"M_FORBIDDEN">>), send2) :
             send2 \in {MxSent(E2), MxRejected(<<"M_FORBIDDEN">>)}}

TelegramTextOf(updates, envs) ==
    \E update \in updates, env \in envs :
        Apply("aiotg_message", [update |-> update, env |-> env],
              aiotg_message(update, env))

TelegramText == TelegramTextOf(TextUpdates, Envs)

TelegramPhoto ==
    \E update \in PhotoUpdates, env \in Envs :
        Apply("aiotg_photo", [update |-> update, env |-> env],
              aiotg_photo(update, env))

TelegramSticker ==
    \E update \in StickerUpdates, env \in Envs :
        Apply("aiotg_sticker", [update |-> update, env |-> env],
              aiotg_sticker(update, env))

\* Relay from Telegram to Matrix over the links the store starts with.
NextTg == TelegramText \/ TelegramPhoto \/ TelegramSticker

SpecTg == Init /\ [][NextTg]_vars

\* Alias events that move a room's link, between text updates of one group.
RelinkEvents ==
    {MatrixEventRec(<<"m.room.aliases">>, NoAge, r, EventId, MATRIX_HOST_BARE, Alice,
                    [NoContent EXCEPT !.aliases = al], NoPrev) :
        r \in Rooms, al \in {<<>>, <<A1>>}}

RelinkEvent == MatrixEvent(RelinkEvents)

ThreadUpdates ==
    {TextUpdate(G1, 1, Bob, Hello, NoPerson, NoReply),
     TextUpdate(G1, 2, Bob, Hello, NoPerson, ReplyTo(TRUE, 1, Eve, TwoLines, FALSE, FALSE)),
     TextUpdate(G1, 2, Bob, Hello, NoPerson, ReplyTo(TRUE, 1, Eve, Missing, TRUE, FALSE))}

ThreadEnvs ==
    {Env(<<"pp1">>, TRUE, send1, MxRejected(<<"M_UNKNOWN">>)) :
        send1 \in {MxSent(E1), MxSent(E2), MxRejected(<<"M_UNKNOWN">>)}}

TelegramThread == TelegramTextOf(ThreadUpdates, ThreadEnvs)

NextRelink == RelinkEvent \/ TelegramThread

SpecRelink == Init /\ [][NextRelink]_vars

\* Profile sync on its own, for the senders and the photo lists of the updates.
SyncUsers == {Bob, BobRay, Eve}

SyncEnvs ==
    {Env(photos, uploadOk, MxSent(E1), MxRejected(<<"M_UNKNOWN">>)) :
        photos \in {<<>>, <<"pp1">>, <<"pp2">>}, uploadOk \in BOOLEAN}

ProfileSync ==
    \E tg_user \in SyncUsers, env \in SyncEnvs :
        LET sync == update_matrix_displayname_avatar(tg_user, env)
        IN Apply("update_matrix_displayname_avatar", [tg_user |-> tg_user, env |-> env],
                 Outcome(chatLinks, matrixUsers, sync.tusers, messages,
                         sync.out, sync.raised))

NextSync == ProfileSync

SpecSync == Init /\ [][NextSync]_vars

\* Requests of the homeserver: transactions, room queries, and the events
\* the transactions carry handed to _matrix_event one at a time.
MemberEventOf(room, user, membership) ==
    MatrixEventRec(<<"m.room.member">>, NoAge, room, EventId, user, user,
                   [NoContent EXCEPT !.membership = membership], NoPrev)

LeaveEvent == MemberEventOf(R1, Alice, <<"leave">>)
BanEvent == MemberEventOf(R1, Alice, <<"ban">>)

TxnEvents ==
    {LeaveEvent, BanEvent,
     MemberEventOf(R2, Alice, <<"leave">>),
     MatrixEventRec(<<"m.room.message">>, NoAge, R2, EventId, Missing, Alice,
                    TextContent, NoPrev),
     MatrixEventRec(<<"m.room.topic">>, NoAge, R2, EventId, <<>>, Alice, NoContent, NoPrev),
     MatrixEventRec(<<"m.room.aliases">>, NoAge, R2, EventId, MATRIX_HOST_BARE, Alice,
                    [NoContent EXCEPT !.aliases = <<A2>>], NoPrev)}

TxnBody(has_events, events) == [has_events |-> has_events, events |-> events]

TxnBodies ==
    {TxnBody(TRUE, events) : events \in UNION {[1..n -> TxnEvents] : n \in 0..MaxEvents}}
       \cup {TxnBody(FALSE, <<>>)}

HttpRun(op, arg, r) ==
    /\ Store(r.outcome)
    /\ call' = HandlerRun(op, arg, r.outcome.out, r.outcome.raised, NoTgAnswer,
                          r.response)

MatrixTransaction ==
    \E body \in TxnBodies : HttpRun("matrix_transaction", body, matrix_transaction(body))

RoomAliases == {A1, A2, Alias(<<"1001">>, OtherHost),
                <<"#", "general", ":">> \o MATRIX_HOST_BARE}

AccessTokens == {Missing, HS_TOKEN, <<"other-token">>}

MatrixRoom ==
    \E room_alias \in RoomAliases, access_token \in AccessTokens :
        HttpRun("matrix_room", [room_alias |-> room_alias, access_token |-> access_token],
                matrix_room(room_alias, access_token))

TxnEvent == MatrixEvent(TxnEvents)

NextHttp == MatrixTransaction \/ MatrixRoom \/ TxnEvent

SpecHttp == Init /\ [][NextHttp]_vars

\* Both directions over one link, with deliveries that repeat.  The
\* homeserver answers a send with the event id of its transaction id, and
\* Telegram numbers the messages it accepts as it goes.
HomeserverEventId(update, txn) == <<"$e", ToString(update.message_id), txn>>

BridgeEnvs(update) ==
    {Env(<<"pp1">>, TRUE, MxSent(HomeserverEventId(update, "first")),
         MxRejected(<<"M_UNKNOWN">>)),
     Env(<<"pp1">>, TRUE, MxRejected(<<"M_UNKNOWN">>), MxRejected(<<"M_UNKNOWN">>)),
     Env(<<"pp1">>, TRUE, MxRejected(<<"M_FORBIDDEN">>),
         MxSent(HomeserverEventId(update, "join"))),
     Env(<<"pp1">>, FALSE, MxSent(HomeserverEventId(update, "first")),
         MxRejected(<<"M_UNKNOWN">>)),
     Env(<<>>, TRUE, MxSent(HomeserverEventId(update, "first")),
         MxRejected(<<"M_UNKNOWN">>))}

BridgeTextUpdates ==
    {TextUpdate(G1, 1, Bob, Hello, NoPerson, NoReply)} \cup ReplyUpdates

BridgePhotoUpdates ==
    {Update("photo", G1, 3, Bob, Missing, NoPerson, NoReply, Missing, <<"file1">>)}

TelegramRunWithin(max, op, update, env, o) ==
    /\ Len(o.msgs) <= max
    /\ Store(o)
    /\ call' = CallRec(op, [update |-> update, env |-> env], o.out, o.raised)

BridgeText ==
    \E update \in BridgeTextUpdates : \E env \in BridgeEnvs(update) :
        TelegramRunWithin(MaxRows, "aiotg_message", update, env,
                          aiotg_message(update, env))

BridgePhoto ==
    \E update \in BridgePhotoUpdates : \E env \in BridgeEnvs(update) :
        TelegramRunWithin(MaxRows, "aiotg_photo", update, env, aiotg_photo(update, env))

BridgeTgResponses == {TgOk(5 + Len(messages)), TgError}

BridgeMemberEvents ==
    {MatrixEventRec(<<"m.room.member">>, NoAge, R1, EventId, Alice, Alice,
                    [NoContent EXCEPT !.membership = <<"join">>,
                                      !.displayname = <<"Alice">>], NoPrev),
     LeaveEvent}

BridgeEvent(events) ==
    \E event \in events : \E tgResp \in ResponsesFor(event, BridgeTgResponses) :
        /\ Len(_matrix_event(event, <<"Alice">>, tgResp).msgs) <= MaxRows
        /\ MatrixEventRun(event, <<"Alice">>, tgResp)

BridgeMessage == BridgeEvent(MessageEvents)

BridgeMember == BridgeEvent(BridgeMemberEvents)

NextBridge == BridgeText \/ BridgePhoto \/ BridgeMessage \/ BridgeMember

SpecBridge == Init /\ [][NextBridge]_vars

\* The handlers one step at a time.  A handler runs alone from one await of
\* network I/O to the next; at the await the loop may run a step of any other
\* handler (aiotg schedules one task per update, aiohttp one per request).
\* A step reads and writes the store at the lines it covers; what a handler
\* read before an await it keeps in its locals.
RaceUsers == {Bob, BobRay, Eve}

RacePhotos == {<<>>, <<"pp1">>}

RaceEvents ==
    {e \in MessageEvents :
        e.user_id = Alice /\ e.content.format = Missing
                          /\ e.content.msgtype \in {<<"m.text">>, <<"m.notice">>}}

Resume(t, task) == pending' = [pending EXCEPT ![t] = task]

\* update_matrix_displayname_avatar up to "await TG_BOT.get_user_profile_photos":
\* the TgUser row is looked up before the await
SyncRead(t) ==
    \E tg_user \in RaceUsers :
        /\ pending[t].pc = "idle"
        /\ Len(tgUsers) < MaxRows
        /\ Resume(t, Task("photos", tg_user, <<>>,
                          FirstIndex([i \in 1..Len(tgUsers) |->
                                         tgUsers[i].tg_id = tg_user.id]),
                          TelegramName(tg_user), <<>>))
        /\ UNCHANGED <<chatLinks, matrixUsers, tgUsers, messages, call>>

\* the photo list arrives: an empty list raises and ends the handler; a row
\* that needs no update is committed as it is; otherwise the handler awaits
\* its first matrix_put
SyncPhotos(t) ==
    \E photos \in RacePhotos :
        LET task == pending[t]
            photo == FirstPhoto(photos)
            upToDate == /\ task.row # NoRow
                        /\ tgUsers[task.row].name = task.name
                        /\ ~PhotoChanged(tgUsers[task.row].profile_pic_id, photo.file_id)
        IN /\ task.pc = "photos"
           /\ Resume(t, IF photo.raised \/ upToDate THEN Idle
                        ELSE [task EXCEPT !.pc = "puts", !.pic = photo.file_id])
           /\ UNCHANGED <<chatLinks, matrixUsers, tgUsers, messages, call>>

\* the puts (and the upload) are answered: the row read before the first
\* await is updated, or, when none was found then, a new row is added
SyncCommit(t) ==
    LET task == pending[t]
    IN /\ task.pc = "puts"
       /\ tgUsers' = IF task.row # NoRow
                     THEN [tgUsers EXCEPT ![task.row].name = task.name,
                                          ![task.row].profile_pic_id = task.pic]
                     ELSE Append(tgUsers, TgUser(task.arg.id, task.name, task.pic))
       /\ Resume(t, Idle)
       /\ UNCHANGED <<chatLinks, matrixUsers, messages, call>>

\* _matrix_on_message up to its first await: the MatrixUser row is looked up;
\* without one the handler awaits matrix_get, with one it goes on to send_text
MessageRead(t) ==
    \E event \in RaceEvents :
        LET link == LinkByRoom(event.room_id)
            user_id == event.user_id
            sender == FirstIndex([i \in 1..Len(matrixUsers) |->
                                     matrixUsers[i].matrix_id = user_id])
        IN /\ pending[t].pc = "idle"
           /\ link # NoRow
           /\ Len(matrixUsers) < MaxRows
           /\ Len(messages) < MaxMessages
           /\ Resume(t, IF sender = NoRow
                        THEN Task("profile", event, chatLinks[link].tg_room, NoRow,
                                  <<>>, <<>>)
                        ELSE Task("send", event, chatLinks[link].tg_room, sender,
                                  OrElse(matrixUsers[sender].name, get_username(user_id)),
                                  <<>>))
           /\ UNCHANGED <<chatLinks, matrixUsers, tgUsers, messages, call>>

\* the profile arrives: the MatrixUser row is added, then send_text is awaited
MessageProfile(t) ==
    \E profile \in Profiles :
        LET task == pending[t]
            user_id == task.arg.user_id
            displayname == IF profile = Missing THEN get_username(user_id) ELSE profile
        IN /\ task.pc = "profile"
           /\ matrixUsers' = Append(matrixUsers, MatrixUser(user_id, displayname))
           /\ Resume(t, [task EXCEPT !.pc = "send", !.name = displayname])
           /\ UNCHANGED <<chatLinks, tgUsers, messages, call>>

\* Telegram answers the send: the Message row is added when it accepted
MessageSend(t) ==
    \E tgResp \in TgResponses :
        LET task == pending[t]
        IN /\ task.pc = "send"
           /\ messages' = IF tgResp.ok
                          THEN Append(messages,
                                      Message(task.group, tgResp.message_id,
                                              task.arg.room_id, task.arg.event_id,
                                              task.name))
                          ELSE messages
           /\ Resume(t, Idle)
           /\ UNCHANGED <<chatLinks, matrixUsers, tgUsers, call>>

SyncStep == \E t \in Tasks : SyncRead(t) \/ SyncPhotos(t) \/ SyncCommit(t)

MessageStep == \E t \in Tasks : MessageRead(t) \/ MessageProfile(t) \/ MessageSend(t)

NextRace == SyncStep \/ MessageStep

SpecRace == Init /\ [][NextRace]_vars

(***************************************************************************)
(* Properties                                                              *)
(***************************************************************************)
NoTelegramCall(out) == \A i \in 1..Len(out) : ~IsTelegramCall(out[i])

IsMatrixRun(c, type) == c.op = "_matrix_event" /\ c.arg.type = type

\* C1: a Matrix event whose age exceeds 600000 ms makes no outbound Telegram
\* call (no outbound call at all) and leaves the four tables unchanged,
\* whatever its type and whether or not its room is linked.
C1_StaleEventDiscarded ==
    [][(call'.op = "_matrix_event" /\ call'.arg.age > 600000)
          => (tables' = tables /\ call'.out = <<>>)]_vars

C1_Witness ==
    /\ call.op = "_matrix_event"
    /\ call.arg.age > 600000
    /\ call.arg.type = <<"m.room.message">>
    /\ \E i \in 1..Len(chatLinks) : chatLinks[i].matrix_room = call.arg.room_id
    /\ matrixUsers # <<>>

\* C2: an m.room.aliases event whose state_key is not the bridge's own domain
\* leaves the ChatLink rows as they were, whatever its alias list.
C2_ForeignAliasesKeepLinks ==
    [][(IsMatrixRun(call', <<"m.room.aliases">>)
          /\ call'.arg.state_key # MATRIX_HOST_BARE)
          => chatLinks' = chatLinks]_vars

C2_Witness ==
    /\ IsMatrixRun(call, <<"m.room.aliases">>)
    /\ call.arg.state_key = OtherHost
    /\ call.arg.age = NoAge
    /\ call.arg.content.aliases = <<A2>>
    /\ ~call.raised
    /\ chatLinks = <<ChatLink(call.arg.room_id, <<"1001">>, TRUE)>>

\* C3: in every reachable state no Matrix room id appears in two ChatLink rows
\* and no Telegram group id appears in two ChatLink rows.
C3_OneLinkPerRoomAndGroup ==
    \A i, j \in 1..Len(chatLinks) :
        i # j => /\ chatLinks[i].matrix_room # chatLinks[j].matrix_room
                 /\ chatLinks[i].tg_room # chatLinks[j].tg_room

\* C4: an m.room.aliases event of the bridge's domain for a room that has no
\* ChatLink, listing a valid #telegram_<id>:<domain> alias, leaves a ChatLink
\* row binding that room to <id>.
C4_AliasCreatesFirstLink ==
    [][(/\ IsMatrixRun(call', <<"m.room.aliases">>)
        /\ call'.arg.age = NoAge
        /\ call'.arg.state_key = MATRIX_HOST_BARE
        /\ call'.arg.content.aliases = <<A1>>
        /\ \A i \in 1..Len(chatLinks) : chatLinks[i].matrix_room # call'.arg.room_id)
          => \E i \in 1..Len(chatLinks') :
                chatLinks'[i] = ChatLink(call'.arg.room_id, <<"1001">>, TRUE)]_vars

\* C5: no exception leaves _matrix_event, whatever the event.
C5_NoExceptionEscapes == call.op = "_matrix_event" => ~call.raised

\* C6: an m.room.message event authored by a ghost identity makes no outbound
\* Telegram call and records neither a Message row nor a MatrixUser row.
C6_GhostMessageDiscarded ==
    [][(IsMatrixRun(call', <<"m.room.message">>) /\ call'.arg.user_id = Ghost)
          => (/\ NoTelegramCall(call'.out)
              /\ messages' = messages
              /\ matrixUsers' = matrixUsers)]_vars

C6_Witness ==
    /\ IsMatrixRun(call, <<"m.room.message">>)
    /\ call.arg.user_id = Ghost
    /\ call.arg.age = NoAge
    /\ call.arg.content.msgtype = <<"m.text">>
    /\ \E i \in 1..Len(chatLinks) : chatLinks[i].matrix_room = call.arg.room_id

IsTelegramRun(c) == c.op \in {"aiotg_message", "aiotg_photo", "aiotg_sticker"}

\* positions in out of the sends of the main message (not of the caption)
MainSends(out) ==
    {i \in 1..Len(out) : IsSend(out[i]) /\ Last(out[i].txn) # "caption"}

\* C7: a handler run sends its main message at most twice; a second send
\* happens only after the first was rejected with M_FORBIDDEN, and then
\* exactly once, under another transaction id, after the register and the
\* join of the same ghost identity, which both follow the rejected send.
C7_SingleRetryAfterJoin ==
    IsTelegramRun(call) =>
        LET out == call.out
            main == MainSends(out)
            forbidden == call.arg.env.send1.errcode = <<"M_FORBIDDEN">>
        IN /\ Cardinality(main) <= 2
           /\ (~forbidden => Cardinality(main) <= 1)
           /\ (forbidden /\ main # {}) =>
                 \E a, b \in main :
                    /\ a < b
                    /\ main = {a, b}
                    /\ out[a].txn # out[b].txn
                    /\ out[a].user = out[b].user
                    /\ \E r, jn \in 1..Len(out) :
                          /\ a < r /\ r < jn /\ jn < b
                          /\ IsRegister(out[r])
                          /\ <<"@">> \o out[r].data.body
                                = SubSeq(out[b].user, 1, Len(out[r].data.body) + 1)
                          /\ IsJoin(out[jn])
                          /\ out[jn].user = out[b].user

C7_Witness ==
    /\ call.op = "aiotg_sticker"
    /\ call.arg.env.send1.errcode = <<"M_FORBIDDEN">>
    /\ call.arg.env.send2.errcode = <<"M_FORBIDDEN">>
    /\ Cardinality(MainSends(call.out)) = 2

\* C8: when the first send was rejected with M_FORBIDDEN and the retry
\* returned an event id, the store holds a Message row for the Telegram
\* message, with the retry's event id and the sender's display name.
C8_RetryRecordsMessage ==
    (/\ IsTelegramRun(call)
     /\ MainSends(call.out) # {}
     /\ call.arg.env.send1.errcode = <<"M_FORBIDDEN">>
     /\ call.arg.env.send2.event_id # Missing)
       => \E i \in 1..Len(messages) :
             /\ messages[i].tg_group_id = call.arg.update.chat_id
             /\ messages[i].tg_message_id = call.arg.update.message_id
             /\ messages[i].matrix_event_id = call.arg.env.send2.event_id
             /\ messages[i].displayname = TelegramName(call.arg.update.sender)

\* C9: a text update of a linked group that is neither a reply nor a forward,
\* whose send the homeserver accepts, makes exactly one m.room.message send of
\* type m.text with the update's text as body, and the last Message row is the
\* one keyed by the returned event id; for every sender.
C9_PlainTextRelayedOnce ==
    (/\ call.op = "aiotg_message"
     /\ call.arg.update.forward_from = NoPerson
     /\ ~call.arg.update.reply_to.present
     /\ LinkByGroup(call.arg.update.chat_id) # NoRow
     /\ call.arg.env.send1.event_id # Missing)
       => /\ \E i \in 1..Len(call.out) :
                /\ {k \in 1..Len(call.out) : IsSend(call.out[k])} = {i}
                /\ call.out[i].data.msgtype = <<"m.text">>
                /\ call.out[i].data.body = call.arg.update.text
          /\ messages # <<>>
          /\ Last(messages).tg_group_id = call.arg.update.chat_id
          /\ Last(messages).tg_message_id = call.arg.update.message_id
          /\ Last(messages).matrix_event_id = call.arg.env.send1.event_id

Contains(s, t) == \E i \in 1..Len(s) : s[i] = t

\* C10: when a reply is sent for a target whose Message row holds room R and
\* event E, the HTML body sent names both R and E.
C10_ReplyNamesRoomAndEvent ==
    (/\ call.op = "aiotg_message"
     /\ call.arg.update.forward_from = NoPerson
     /\ call.arg.update.reply_to.present
     /\ \E k \in 1..Len(call.out) : IsSend(call.out[k]))
       => \A i \in 1..Len(messages) :
             (/\ messages[i].tg_group_id = call.arg.update.chat_id
              /\ messages[i].tg_message_id = call.arg.update.reply_to.message_id
              /\ \A j \in 1..(i - 1) :
                    ~(/\ messages[j].tg_group_id = call.arg.update.chat_id
                      /\ messages[j].tg_message_id
                            = call.arg.update.reply_to.message_id))
                => \A k \in 1..Len(call.out) :
                      IsSend(call.out[k]) =>
                         /\ Contains(call.out[k].data.formatted_body,
                                     messages[i].matrix_room_id[1])
                         /\ Contains(call.out[k].data.formatted_body,
                                     messages[i].matrix_event_id[1])

IsSync(c) == c.op = "update_matrix_displayname_avatar"

IsMatrixCall(c) == c.api \in {"matrix.PUT", "matrix.POST", "matrix.send"}

\* C11: when update_matrix_displayname_avatar runs twice in succession for
\* the same Telegram user (same id and names) with the same upstream photo
\* list, the second run makes no call to the homeserver (no display-name or
\* avatar update, no upload) and leaves the TgUser rows as they were.
C11_ProfileSyncIdempotent ==
    [][(/\ IsSync(call) /\ IsSync(call')
        /\ call'.arg.tg_user = call.arg.tg_user
        /\ call'.arg.env.photos = call.arg.env.photos)
          => (/\ \A i \in 1..Len(call'.out) : ~IsMatrixCall(call'.out[i])
              /\ tgUsers' = tgUsers)]_vars

C11_Witness ==
    /\ IsSync(call)
    /\ ~call.raised
    /\ call.arg.env.photos = <<"pp1">>
    /\ Len(call.out) = 1
    /\ \E i \in 1..Len(tgUsers) :
          /\ tgUsers[i].tg_id = call.arg.tg_user.id
          /\ tgUsers[i].name = TelegramName(call.arg.tg_user)
          /\ tgUsers[i].profile_pic_id = <<"pp1">>

IsTransaction(c) == c.op = "matrix_transaction"

Ok200 == [code |-> 200, obj |-> [errcode |-> Missing]]

\* the event is of a room without a ChatLink and is no alias event
UnlinkedNonAlias(event) ==
    /\ \A i \in 1..Len(chatLinks) : chatLinks[i].matrix_room # event.room_id
    /\ event.type # <<"m.room.aliases">>

\* C12: a transaction whose events are all of unlinked rooms and of a type
\* other than m.room.aliases is answered 200 {}, makes no outbound call and
\* leaves the four tables as they were; and _matrix_event, given such an
\* event, makes no outbound call and changes no table either.
C12_UnlinkedTransactionIsNoOp ==
    [][/\ (/\ IsTransaction(call')
            /\ call'.arg.has_events
            /\ \A i \in 1..Len(call'.arg.events) : UnlinkedNonAlias(call'.arg.events[i]))
              => (/\ call'.response = Ok200
                  /\ NoTelegramCall(call'.out)
                  /\ tables' = tables)
       /\ (call'.op = "_matrix_event" /\ UnlinkedNonAlias(call'.arg))
              => (call'.out = <<>> /\ tables' = tables)]_vars

C12_Witness ==
    /\ IsTransaction(call)
    /\ Len(call.arg.events) = 2
    /\ call.arg.events[1].type = <<"m.room.message">>
    /\ call.arg.events[2].type = <<"m.room.member">>
    /\ \A i \in 1..2 : UnlinkedNonAlias(call.arg.events[i])
    /\ chatLinks # <<>>
    /\ call.response.code = 200

\* C13: every PUT /transactions/{id} whose body holds an events array is
\* answered 200 {}, and no exception leaves the handler, whatever the events.
C13_TransactionAlways200 ==
    (IsTransaction(call) /\ call.arg.has_events)
       => (call.response = Ok200 /\ ~call.raised)

C13_Witness ==
    /\ IsTransaction(call)
    /\ Len(call.arg.events) = 2
    /\ call.arg.events[1].type = <<"m.room.aliases">>
    /\ \A i \in 1..Len(chatLinks) : chatLinks[i].matrix_room # call.arg.events[1].room_id
    /\ call.response.code = 200

\* C14: GET /rooms/{room_alias} without an access_token parameter is answered
\* 401 with the bridge's unauthorized error code and makes no outbound call;
\* with a token other than the homeserver token it is answered 403
\* M_FORBIDDEN.
C14_RoomQueryTokenChecks ==
    call.op = "matrix_room" =>
        /\ call.arg.access_token = Missing
              => (/\ call.response
                        = [code |-> 401,
                           obj |-> [errcode |-> <<"NL.SIJMENSCHOON.TELEMATRIX_UNAUTHORIZED">>]]
                  /\ call.out = <<>>)
        /\ (call.arg.access_token # Missing /\ call.arg.access_token # HS_TOKEN)
              => call.response = [code |-> 403, obj |-> [errcode |-> <<"M_FORBIDDEN">>]]

\* C15: in every reachable state no two Message rows share the Telegram pair
\* (group, message id) and no two share the Matrix pair (room id, event id),
\* also when an event or an update is delivered again.
C15_MessageKeysUnique ==
    \A i, j \in 1..Len(messages) :
        i # j => /\ <<messages[i].tg_group_id, messages[i].tg_message_id>>
                       # <<messages[j].tg_group_id, messages[j].tg_message_id>>
                 /\ <<messages[i].matrix_room_id, messages[i].matrix_event_id>>
                       # <<messages[j].matrix_room_id, messages[j].matrix_event_id>>

\* C20: the Message table only changes by one row being added at its end,
\* and only in a run whose send on the other network returned success: a
\* Telegram handler whose first send was answered with an event id (the row
\* holds that event id and the update's ids), or an m.room.message event
\* whose Telegram send returned a message (the row holds its message id and
\* the event's ids).  No other run, a membership event included, adds a row.
C20_MessageOnlyAfterSuccessfulSend ==
    [][messages' # messages =>
          /\ Len(messages') = Len(messages) + 1
          /\ SubSeq(messages', 1, Len(messages)) = messages
          /\ LET row == messages'[Len(messages')] IN
             \/ /\ IsTelegramRun(call')
                /\ MainSends(call'.out) # {}
                /\ call'.arg.env.send1.event_id # Missing
                /\ row.matrix_event_id = call'.arg.env.send1.event_id
                /\ row.tg_group_id = call'.arg.update.chat_id
                /\ row.tg_message_id = call'.arg.update.message_id
             \/ /\ IsMatrixRun(call', <<"m.room.message">>)
                /\ \E i \in 1..Len(call'.out) : IsTelegramCall(call'.out[i])
                /\ call'.tg.ok
                /\ row.tg_message_id = call'.tg.message_id
                /\ row.matrix_room_id = call'.arg.room_id
                /\ row.matrix_event_id = call'.arg.event_id]_vars

C20_Witness ==
    /\ IsMatrixRun(call, <<"m.room.message">>)
    /\ call.arg.content.msgtype = <<"m.image">>
    /\ call.tg.ok
    /\ Len(messages) = 2
    /\ messages[1].matrix_event_id = <<"$e", "3", "first">>
    /\ messages[2].matrix_event_id = call.arg.event_id

TelegramCalls(out) == {i \in 1..Len(out) : IsTelegramCall(out[i])}

\* the name the bridge holds for a Matrix user: the name of the first
\* MatrixUser row, or the localpart when that name is empty
DisplayNameOf(user_id) ==
    LET rows == {i \in 1..Len(matrixUsers) : matrixUsers[i].matrix_id = user_id}
        first == CHOOSE i \in rows : \A j \in rows : i <= j
    IN IF matrixUsers[first].name = <<>>
       THEN SubSeq(user_id, 2, 2)
       ELSE matrixUsers[first].name

\* C16: an m.room.message event with a plain body B from a non-ghost user
\* named N in a linked room makes exactly one Telegram call, a text send,
\* whose text is "* N B" for m.emote, "<N> B" for m.text and "[N] B" for
\* m.notice.
C16_PlainMessagePrefix ==
    (/\ IsMatrixRun(call, <<"m.room.message">>)
     /\ call.arg.user_id = Alice
     /\ call.arg.content.msgtype \in {<<"m.text">>, <<"m.notice">>, <<"m.emote">>}
     /\ call.arg.content.format = Missing
     /\ \E i \in 1..Len(chatLinks) : chatLinks[i].matrix_room = call.arg.room_id)
       => LET N == DisplayNameOf(call.arg.user_id)
              B == call.arg.content.body
              text == CASE call.arg.content.msgtype = <<"m.emote">>
                             -> <<"*", " ">> \o N \o <<" ">> \o B
                        [] call.arg.content.msgtype = <<"m.text">>
                             -> <<"<">> \o N \o <<">", " ">> \o B
                        [] call.arg.content.msgtype = <<"m.notice">>
                             -> <<"[">> \o N \o <<"]", " ">> \o B
          IN /\ Cardinality(TelegramCalls(call.out)) = 1
             /\ \A i \in TelegramCalls(call.out) :
                   /\ call.out[i].api = "telegram.sendMessage"
                   /\ call.out[i].data.body = text

C16_Witness ==
    /\ IsMatrixRun(call, <<"m.room.message">>)
    /\ call.arg.content.msgtype = <<"m.emote">>
    /\ call.arg.content.format = Missing
    /\ call.tg.ok
    /\ \E i \in 1..Len(call.out) :
          call.out[i].data.body = <<"*", " ", "Alice", " ", "waves">>

\* C17: an m.room.member event with membership join for a non-ghost user of a
\* linked room makes exactly one Telegram text send: "... changed their
\* display name to ..." when prev_content has membership join, and "... has
\* joined the room" when there is no prev_content or its membership is not
\* join.
C17_JoinSendsOneNotice ==
    (/\ IsMatrixRun(call, <<"m.room.member">>)
     /\ call.arg.content.membership = <<"join">>
     /\ call.arg.state_key = Alice
     /\ \E i \in 1..Len(chatLinks) : chatLinks[i].matrix_room = call.arg.room_id)
       => /\ Cardinality(TelegramCalls(call.out)) = 1
          /\ \A i \in TelegramCalls(call.out) :
                /\ call.out[i].api = "telegram.sendMessage"
                /\ IF call.arg.prev.has_prev /\ call.arg.prev.membership = <<"join">>
                   THEN Contains(call.out[i].data.body, " changed their display name to ")
                   ELSE Contains(call.out[i].data.body, " has joined the room")

\* C18: when a text update arrives from a sender who has no profile photo
\* upstream while the TgUser row holds a photo file id, the handler does not
\* raise, it puts an empty avatar_url, the row's photo id becomes null, and
\* the message is sent to the room.
C18_RemovedPhotoClearsAvatar ==
    [][(/\ call'.op = "aiotg_message"
        /\ call'.arg.env.photos = <<>>
        /\ call'.arg.update.forward_from = NoPerson
        /\ ~call'.arg.update.reply_to.present
        /\ LinkByGroup(call'.arg.update.chat_id) # NoRow
        /\ \E i \in 1..Len(tgUsers) :
              /\ tgUsers[i].tg_id = call'.arg.update.sender.id
              /\ tgUsers[i].profile_pic_id # <<>>)
          => (/\ ~call'.raised
              /\ \E k \in 1..Len(call'.out) :
                    /\ call'.out[k].api = "matrix.PUT"
                    /\ Last(call'.out[k].target) = "avatar_url"
                    /\ call'.out[k].data.body = <<>>
              /\ \A i \in 1..Len(tgUsers') :
                    tgUsers'[i].tg_id = call'.arg.update.sender.id
                       => tgUsers'[i].profile_pic_id = <<>>
              /\ \E k \in 1..Len(call'.out) : IsSend(call'.out[k]))]_vars

\* C19: a transaction whose events are leave and ban events of a user of a
\* linked room makes the Telegram sends of its events in the order of the
\* events array: the i-th call is the notice of the i-th event.
C19_TransactionEventsInOrder ==
    (/\ IsTransaction(call)
     /\ call.arg.has_events
     /\ \A i \in 1..Len(call.arg.events) : call.arg.events[i] \in {LeaveEvent, BanEvent}
     /\ LinkByRoom(R1) # NoRow)
       => /\ Len(call.out) = Len(call.arg.events)
          /\ \A i \in 1..Len(call.out) :
                /\ IsTelegramCall(call.out[i])
                /\ IF call.arg.events[i] = LeaveEvent
                   THEN Contains(call.out[i].data.body, " has left the room")
                   ELSE Contains(call.out[i].data.body, " was banned from the room")

\* C21: when the relay of an m.image message fails (unknown MIME type, failed
\* download, failed Telegram send), no exception leaves _matrix_on_message,
\* none leaves _matrix_event, and no Message row is recorded.
C21_ImageFailureContained ==
    [][(/\ IsMatrixRun(call', <<"m.room.message">>)
        /\ call'.arg.age = NoAge
        /\ call'.arg.user_id = Alice
        /\ call'.arg.content.msgtype = <<"m.image">>
        /\ LinkByRoom(call'.arg.room_id) # NoRow
        /\ \/ \A i \in 1..Len(call'.out) : call'.out[i].api # "telegram.sendPhoto"
           \/ ~call'.tg.ok)
          => (/\ ~call'.caught
              /\ ~call'.raised
              /\ messages' = messages)]_vars

C21_Witness ==
    /\ IsMatrixRun(call, <<"m.room.message">>)
    /\ call.arg.content.msgtype = <<"m.image">>
    /\ call.arg.content.mimetype = <<"image/png">>
    /\ \E i \in 1..Len(call.out) : call.out[i].api = "telegram.sendPhoto"
    /\ ~call.tg.ok
    /\ matrixUsers # <<>>

\* C22: a text, photo or sticker update of a chat that has no ChatLink makes
\* no outbound call, raises nothing and leaves the four tables as they were.
C22_UnknownChatDropped ==
    [][(/\ IsTelegramRun(call')
        /\ \A i \in 1..Len(chatLinks) : chatLinks[i].tg_room # call'.arg.update.chat_id)
          => (/\ call'.out = <<>>
              /\ ~call'.raised
              /\ tables' = tables)]_vars

C22_Witness ==
    /\ call.op = "aiotg_sticker"
    /\ call.arg.update.chat_id = G2
    /\ call.arg.env.photos = <<>>
    /\ chatLinks = <<ChatLink(R1, G1, TRUE)>>
    /\ tgUsers # <<>>
    /\ call.out = <<>>

\* the sends of a run that are not the retry under txn_id + 'join'
FirstSends(out) == {i \in 1..Len(out) : IsSend(out[i]) /\ Last(out[i].txn) # "join"}

\* C23: a reply whose target has neither text, photo nor sticker is dropped:
\* the run issues no send (first or retry) and records no Message row. The
\* forward, reply and plain cases exclude each other: a run sends at most one
\* first message, which is the forward form for an update with forward_from
\* (a reply or not), the reply form for a reply that is no forward, and the
\* plain text otherwise.
C23_EmptyReplyDroppedForwardFirst ==
    [][(/\ call'.op = "aiotg_message"
        /\ LinkByGroup(call'.arg.update.chat_id) # NoRow)
          => LET update == call'.arg.update
                 re_msg == update.reply_to
                 room_id == chatLinks[LinkByGroup(update.chat_id)].matrix_room
                 out == call'.out
                 expected == IF update.forward_from # NoPerson
                             THEN ForwardPayload(update)
                             ELSE IF re_msg.present
                             THEN ReplyPayload(update, room_id)
                             ELSE TextPayload(update.text)
             IN /\ (/\ update.forward_from = NoPerson
                     /\ re_msg.present
                     /\ re_msg.text = Missing
                     /\ ~re_msg.has_photo
                     /\ ~re_msg.has_sticker)
                       => (/\ \A i \in 1..Len(out) : ~IsSend(out[i])
                           /\ messages' = messages)
                /\ Cardinality(FirstSends(out)) <= 1
                /\ \A i \in FirstSends(out) : out[i].data = expected]_vars

\* a dropped reply, after the profile sync recorded the sender
C23_Witness ==
    /\ call.op = "aiotg_message"
    /\ call.arg.update.forward_from = NoPerson
    /\ call.arg.update.reply_to.present
    /\ call.arg.update.reply_to.text = Missing
    /\ ~call.arg.update.reply_to.has_photo
    /\ ~call.arg.update.reply_to.has_sticker
    /\ LinkByGroup(call.arg.update.chat_id) # NoRow
    /\ ~call.raised
    /\ call.out # <<>>
    /\ \A i \in 1..Len(call.out) : ~IsSend(call.out[i])

\* C24: when the send of a forwarded or reply text update is rejected with
\* M_FORBIDDEN, the retry under txn_id + 'join' carries the same body,
\* formatted_body and format as the rejected send.
C24_RetryResendsSameContent ==
    (/\ call.op = "aiotg_message"
     /\ \/ call.arg.update.forward_from # NoPerson
        \/ call.arg.update.reply_to.present)
      => \A i, k \in 1..Len(call.out) :
            (/\ IsSend(call.out[i])
             /\ IsSend(call.out[k])
             /\ call.out[k].txn = RetryTxn(call.out[i].txn))
               => (/\ call.out[k].data.body = call.out[i].data.body
                   /\ call.out[k].data.formatted_body = call.out[i].data.formatted_body
                   /\ call.out[k].data.format = call.out[i].data.format)

\* C25: whatever the interleaving of the handlers at their awaits, the store
\* holds at most one TgUser row per Telegram user id and at most one
\* MatrixUser row per Matrix user id.
C25_OneRowPerUser ==
    /\ \A i, j \in 1..Len(tgUsers) : tgUsers[i].tg_id = tgUsers[j].tg_id => i = j
    /\ \A i, j \in 1..Len(matrixUsers) :
          matrixUsers[i].matrix_id = matrixUsers[j].matrix_id => i = j

====
